---- MODULE Spec2Model ----
(***************************************************************************)
(* Model of scripts/analyze_containers.py: the container classification    *)
(* engine (signal extractors, reverse-proxy detector, classifier,          *)
(* candidacy and risk evaluator, label recommender) and the aggregation    *)
(* loop of main that builds the migration manifest.                        *)
(*                                                                         *)
(* Python strings are modelled as sequences of one-character strings, so   *)
(* that lower(), startswith(), split(), replace(), lstrip(), slicing and   *)
(* the substring test `in` are computed character by character.            *)
(* A Python dict is a function from its keys to its values; a dict whose   *)
(* key order is observed (ExposedPorts, Networks) is the sequence of its   *)
(* keys.  A JSON member that may be missing or null is a tagged value.     *)
(* A Python call either returns a value or raises: its model is an         *)
(* outcome record [raised, val].                                           *)
(***************************************************************************)
EXTENDS Integers, Sequences, FiniteSets, TLC

VARIABLES containers, pc, i, reverse_proxies, inventory, manifest, j,
          rec, arg, call, ret

vars == <<containers, pc, i, reverse_proxies, inventory, manifest, j,
          rec, arg, call, ret>>

mainVars == <<containers, pc, i, reverse_proxies, inventory, manifest, j>>
fnVars == <<rec, arg, call, ret>>

----------------------------------------------------------------------------
\* Python str operations

UpperChars == <<"A","B","C","D","E","F","G","H","I","J","K","L","M","N","O","P","Q","R","S","T","U","V","W","X","Y","Z">>
LowerChars == <<"a","b","c","d","e","f","g","h","i","j","k","l","m","n","o","p","q","r","s","t","u","v","w","x","y","z">>

LowerChar(ch) ==
    IF \E n \in 1..Len(UpperChars) : UpperChars[n] = ch
    THEN LowerChars[CHOOSE n \in 1..Len(UpperChars) : UpperChars[n] = ch]
    ELSE ch

\* the character ` (a TLA+ string cannot hold it)
Backtick == "BACKTICK"

\* s.lower()
Lower(s) == [n \in 1..Len(s) |-> LowerChar(s[n])]

\* pat in s
Contains(pat, s) ==
    \E n \in 0..(Len(s) - Len(pat)) : SubSeq(s, n + 1, n + Len(pat)) = pat

\* s.startswith(pre)
StartsWith(s, pre) == Len(pre) <= Len(s) /\ SubSeq(s, 1, Len(pre)) = pre

HasChar(s, ch) == \E n \in 1..Len(s) : s[n] = ch

FirstIndex(s, ch) ==
    CHOOSE n \in 1..Len(s) : s[n] = ch /\ \A m \in 1..(n - 1) : s[m] # ch

\* s.split(ch, 1), for s containing ch
SplitOnce(s, ch) ==
    <<SubSeq(s, 1, FirstIndex(s, ch) - 1), SubSeq(s, FirstIndex(s, ch) + 1, Len(s))>>

\* s.split(ch)[0]
SplitHead(s, ch) == IF HasChar(s, ch) THEN SubSeq(s, 1, FirstIndex(s, ch) - 1) ELSE s

\* s.lstrip(ch)
LStrip(s, ch) ==
    LET n == CHOOSE m \in 0..Len(s) :
                 /\ \A q \in 1..m : s[q] = ch
                 /\ (m = Len(s) \/ s[m + 1] # ch)
    IN SubSeq(s, n + 1, Len(s))

\* s.replace(a, b), a and b single characters
Replace(s, a, b) == [n \in 1..Len(s) |-> IF s[n] = a THEN b ELSE s[n]]

\* s[:n]
Prefix(s, n) == SubSeq(s, 1, IF Len(s) < n THEN Len(s) ELSE n)

\* x in list
InList(x, list) == \E n \in 1..Len(list) : list[n] = x

\* [f(x) for x in list]
MapSeq(f(_), list) == [n \in 1..Len(list) |-> f(list[n])]

----------------------------------------------------------------------------
\* The fixed lookup tables

REVERSE_PROXY_IMAGES ==
    << <<"t","r","a","e","f","i","k">>, <<"n","g","i","n","x">>, <<"c","a","d","d","y">>, <<"h","a","p","r","o","x","y">>, <<"e","n","v","o","y">>,
       <<"n","g","i","n","x","-","p","r","o","x","y","-","m","a","n","a","g","e","r">>, <<"k","o","n","g">>, <<"i","s","t","i","o">>, <<"j","w","i","l","d","e","r","/","n","g","i","n","x","-","p","r","o","x","y">>,
       <<"n","g","i","n","x","p","r","o","x","y","/","n","g","i","n","x","-","p","r","o","x","y">>, <<"l","u","c","a","s","l","o","r","e","n","t","z","/","c","a","d","d","y","-","d","o","c","k","e","r","-","p","r","o","x","y">> >>

PROXY_NETWORK_PATTERNS == << <<"t","r","a","e","f","i","k">>, <<"e","d","g","e">>, <<"i","n","g","r","e","s","s">>, <<"p","r","o","x","y">>, <<"g","a","t","e","w","a","y">> >>

HTTP_SERVICE_PORTS ==
    << <<"8","0">>, <<"4","4","3">>, <<"8","0","8","0">>, <<"8","4","4","3">>, <<"3","0","0","0">>, <<"5","0","0","0">>, <<"8","0","0","0">>, <<"8","8","8","8">>, <<"9","0","0","0">> >>

nginx_proxy_vars ==
    << <<"V","I","R","T","U","A","L","_","H","O","S","T">>, <<"V","I","R","T","U","A","L","_","P","O","R","T">>, <<"L","E","T","S","E","N","C","R","Y","P","T","_","H","O","S","T">>, <<"L","E","T","S","E","N","C","R","Y","P","T","_","E","M","A","I","L">> >>

web_patterns ==
    << <<"w","e","b">>, <<"a","p","i">>, <<"h","t","t","p">>, <<"n","g","i","n","x">>, <<"a","p","a","c","h","e">>, <<"f","l","a","s","k">>, <<"d","j","a","n","g","o">>,
       <<"e","x","p","r","e","s","s">>, <<"n","o","d","e">>, <<"r","e","a","c","t">>, <<"n","e","x","t">> >>

stateful == << <<"p","o","s","t","g","r","e","s">>, <<"m","y","s","q","l">>, <<"m","a","r","i","a","d","b">>, <<"r","e","d","i","s">>, <<"m","o","n","g","o">>, <<"e","l","a","s","t","i","c","s","e","a","r","c","h">> >>

already_proxied_traefik == <<"a","l","r","e","a","d","y","_","p","r","o","x","i","e","d","_","t","r","a","e","f","i","k">>
already_proxied_other == <<"a","l","r","e","a","d","y","_","p","r","o","x","i","e","d","_","o","t","h","e","r">>
exposed_directly == <<"e","x","p","o","s","e","d","_","d","i","r","e","c","t","l","y">>
internal_only == <<"i","n","t","e","r","n","a","l","_","o","n","l","y">>
unknown_needs_review == <<"u","n","k","n","o","w","n","_","n","e","e","d","s","_","r","e","v","i","e","w">>

Classifications ==
    {already_proxied_traefik, already_proxied_other, exposed_directly,
     internal_only, unknown_needs_review}

----------------------------------------------------------------------------
\* JSON members that may be missing or null, and Python's get / or / truthiness

Absent == [tag |-> "absent", val |-> <<>>]
Null == [tag |-> "null", val |-> <<>>]
Val(v) == [tag |-> "val", val |-> v]

\* d.get(key, default): the default only when the key is missing; a null
\* member is returned as None
DictGet(member, default) == IF member.tag = "absent" THEN Val(default) ELSE member

\* bool(x) for x None, a dict or a list
Truthy(x) == x.tag = "val" /\ DOMAIN x.val # {}

\* x or {}
OrEmpty(x) == IF Truthy(x) THEN x.val ELSE <<>>

\* the {} default of container.get('NetworkSettings', {}): every key missing
EmptyNetworkSettings == [Ports |-> Absent, Networks |-> Absent]

\* the outcome of a call
Ret(v) == [raised |-> FALSE, val |-> v]
Raise == [raised |-> TRUE, val |-> "AttributeError"]

\* container.get('NetworkSettings', {}).get('Ports', {}) or {}
\* None.get raises AttributeError
PortsConfig(container) ==
    LET ns == DictGet(container.NetworkSettings, EmptyNetworkSettings)
    IN IF ns.tag = "null" THEN Raise
       ELSE Ret(OrEmpty(DictGet(ns.val.Ports, <<>>)))

\* list((container.get('NetworkSettings', {}).get('Networks', {}) or {}).keys())
ContainerNetworks(container) ==
    LET ns == DictGet(container.NetworkSettings, EmptyNetworkSettings)
    IN IF ns.tag = "null" THEN Raise
       ELSE Ret(OrEmpty(DictGet(ns.val.Networks, <<>>)))

\* container['Config'].get('Labels', {}) or {}
ConfigLabels(container) == OrEmpty(DictGet(container.Config.Labels, <<>>))

\* the env dict built by detect_proxy_signals: entries without '=' are
\* skipped, split on the first '=', a later entry overwrites an earlier one
EnvDict(env_list) ==
    LET has(n) == HasChar(env_list[n], "=")
        key(n) == SplitOnce(env_list[n], "=")[1]
        keys == {key(n) : n \in {m \in 1..Len(env_list) : has(m)}}
        last(k) == CHOOSE n \in 1..Len(env_list) :
                       /\ has(n) /\ key(n) = k
                       /\ \A m \in (n + 1)..Len(env_list) : ~(has(m) /\ key(m) = k)
    IN [k \in keys |-> SplitOnce(env_list[last(k)], "=")[2]]

----------------------------------------------------------------------------
\* The functions of the classification engine

is_reverse_proxy(container) ==
    LET image == Lower(container.Config.Image)
    IN IF \E n \in 1..Len(REVERSE_PROXY_IMAGES) : Contains(REVERSE_PROXY_IMAGES[n], image)
       THEN Ret(TRUE)
       ELSE LET pcfg == PortsConfig(container)
            IN IF pcfg.raised THEN Raise
               ELSE LET ports == pcfg.val
                        has_80 == <<"8","0","/","t","c","p">> \in DOMAIN ports /\ Truthy(ports[<<"8","0","/","t","c","p">>])
                        has_443 == <<"4","4","3","/","t","c","p">> \in DOMAIN ports /\ Truthy(ports[<<"4","4","3","/","t","c","p">>])
                        labels == ConfigLabels(container)
                    IN Ret(/\ has_80 /\ has_443
                           /\ \/ Contains(<<"t","r","a","e","f","i","k">>, image)
                              \/ \E k \in DOMAIN labels : Contains(<<"t","r","a","e","f","i","k">>, Lower(k)))

detect_proxy_signals(container) ==
    LET labels == ConfigLabels(container)
        env == EnvDict(OrEmpty(DictGet(container.Config.Env, <<>>)))
        traefik_labels ==
            [k \in {l \in DOMAIN labels : StartsWith(l, <<"t","r","a","e","f","i","k",".">>)} |-> labels[k]]
        nginx_proxy_env ==
            [v \in {w \in DOMAIN env : InList(w, nginx_proxy_vars)} |-> env[v]]
        caddy_labels ==
            [k \in {l \in DOMAIN labels :
                       \/ StartsWith(l, <<"c","a","d","d","y">>)
                       \/ Contains(<<"c","a","d","d","y",".","r","e","v","e","r","s","e","_","p","r","o","x","y">>, Lower(l))} |-> labels[k]]
    IN Ret([traefik_labels |-> traefik_labels,
            nginx_proxy_env |-> nginx_proxy_env,
            caddy_labels |-> caddy_labels,
            has_proxy_signals |-> \/ DOMAIN traefik_labels # {}
                                  \/ DOMAIN nginx_proxy_env # {}
                                  \/ DOMAIN caddy_labels # {}])

\* f"{b['HostIp']}:{b['HostPort']}"
FormatBinding(b) == b.HostIp \o <<":">> \o b.HostPort

get_published_ports(container) ==
    LET pcfg == PortsConfig(container)
    IN IF pcfg.raised THEN Raise
       ELSE LET ports_config == pcfg.val
            IN Ret([port \in {p \in DOMAIN ports_config : Truthy(ports_config[p])} |->
                        MapSeq(FormatBinding, ports_config[port].val)])

get_exposed_ports(container) == Ret(OrEmpty(DictGet(container.Config.ExposedPorts, <<>>)))

is_in_proxy_network(networks) ==
    \E n \in 1..Len(networks) : \E p \in 1..Len(PROXY_NETWORK_PATTERNS) :
        Contains(PROXY_NETWORK_PATTERNS[p], Lower(networks[n]))

\* dict.get(key, '') on a dict of strings
StrGet(d, key) == IF key \in DOMAIN d THEN d[key] ELSE <<>>

ClassifyIgnoresEnable(proxy_signals, published_ports, networks) ==
    IF DOMAIN proxy_signals.traefik_labels # {}
    THEN already_proxied_traefik
    ELSE IF \/ DOMAIN proxy_signals.nginx_proxy_env # {}
            \/ DOMAIN proxy_signals.caddy_labels # {}
    THEN already_proxied_other
    ELSE IF DOMAIN published_ports # {} /\ ~proxy_signals.has_proxy_signals
    THEN exposed_directly
    ELSE IF DOMAIN published_ports = {} /\ ~proxy_signals.has_proxy_signals
    THEN internal_only
    ELSE unknown_needs_review

ClassifyPortlessIsInternal(proxy_signals, published_ports, networks) ==
    LET traefik_enabled ==
            Lower(StrGet(proxy_signals.traefik_labels, <<"t","r","a","e","f","i","k",".","e","n","a","b","l","e">>)) = <<"t","r","u","e">>
    IN IF /\ DOMAIN proxy_signals.traefik_labels # {}
          /\ (traefik_enabled \/ is_in_proxy_network(networks))
       THEN already_proxied_traefik
       ELSE IF \/ DOMAIN proxy_signals.nginx_proxy_env # {}
               \/ DOMAIN proxy_signals.caddy_labels # {}
       THEN already_proxied_other
       ELSE IF DOMAIN published_ports # {} /\ ~proxy_signals.has_proxy_signals
       THEN exposed_directly
       ELSE IF DOMAIN published_ports = {}
       THEN internal_only
       ELSE unknown_needs_review

\* the rule chain of classify_container, first match wins
Classify(proxy_signals, published_ports, networks) ==
    LET traefik_enabled ==
            Lower(StrGet(proxy_signals.traefik_labels, <<"t","r","a","e","f","i","k",".","e","n","a","b","l","e">>)) = <<"t","r","u","e">>
    IN IF /\ DOMAIN proxy_signals.traefik_labels # {}
          /\ (traefik_enabled \/ is_in_proxy_network(networks))
       THEN already_proxied_traefik
       ELSE IF \/ DOMAIN proxy_signals.nginx_proxy_env # {}
               \/ DOMAIN proxy_signals.caddy_labels # {}
       THEN already_proxied_other
       ELSE IF DOMAIN published_ports # {} /\ ~proxy_signals.has_proxy_signals
       THEN exposed_directly
       ELSE IF DOMAIN published_ports = {} /\ ~proxy_signals.has_proxy_signals
       THEN internal_only
       ELSE unknown_needs_review

ClassifyContainerReadsExposedPorts(container) ==
    LET proxy_signals == detect_proxy_signals(container).val
        pp == get_published_ports(container)
        nets == ContainerNetworks(container)
    IN IF pp.raised \/ nets.raised THEN Raise
       ELSE Ret(Classify(proxy_signals, get_exposed_ports(container).val, nets.val))

\* the three extractions, then the rule chain; get_published_ports is the
\* first statement that can raise
classify_container(container) ==
    LET proxy_signals == detect_proxy_signals(container).val
        pp == get_published_ports(container)
        nets == ContainerNetworks(container)
    IN IF pp.raised \/ nets.raised THEN Raise
       ELSE Ret(Classify(proxy_signals, pp.val, nets.val))

is_http_service(container) ==
    LET image == Lower(container.Config.Image)
        exposed == get_exposed_ports(container).val
    IN Ret(\/ \E n \in 1..Len(exposed) : InList(SplitHead(exposed[n], "/"), HTTP_SERVICE_PORTS)
           \/ \E n \in 1..Len(web_patterns) : Contains(web_patterns[n], image))

RoutingPortLast(exposed) ==
    LET hits == {n \in 1..Len(exposed) : InList(SplitHead(exposed[n], "/"), HTTP_SERVICE_PORTS)}
    IN IF hits = {} THEN <<"8","0">>
       ELSE SplitHead(exposed[CHOOSE n \in hits : \A m \in hits : n >= m], "/")

\* the routing port: the first exposed port whose number is an HTTP port, else '80'
RoutingPort(exposed) ==
    LET hits == {n \in 1..Len(exposed) : InList(SplitHead(exposed[n], "/"), HTTP_SERVICE_PORTS)}
    IN IF hits = {} THEN <<"8","0">>
       ELSE SplitHead(exposed[CHOOSE n \in hits : \A m \in hits : n <= m], "/")

generate_recommended_labels(container) ==
    LET name == LStrip(container.Name, "/")
        safe_name == Replace(Replace(name, "-", "_"), ".", "_")
        port == RoutingPort(get_exposed_ports(container).val)
        k1 == <<"t","r","a","e","f","i","k",".","e","n","a","b","l","e">>
        k2 == <<"t","r","a","e","f","i","k",".","h","t","t","p",".","r","o","u","t","e","r","s",".">> \o safe_name \o <<".","r","u","l","e">>
        k3 == <<"t","r","a","e","f","i","k",".","h","t","t","p",".","r","o","u","t","e","r","s",".">> \o safe_name \o <<".","e","n","t","r","y","p","o","i","n","t","s">>
        k4 == <<"t","r","a","e","f","i","k",".","h","t","t","p",".","r","o","u","t","e","r","s",".">> \o safe_name \o <<".","t","l","s">>
        k5 == <<"t","r","a","e","f","i","k",".","h","t","t","p",".","s","e","r","v","i","c","e","s",".">> \o safe_name \o <<".","l","o","a","d","b","a","l","a","n","c","e","r",".","s","e","r","v","e","r",".","p","o","r","t">>
    IN Ret([k \in {k1, k2, k3, k4, k5} |->
               IF k = k5 THEN port
               ELSE IF k = k4 THEN <<"t","r","u","e">>
               ELSE IF k = k3 THEN <<"w","e","b","s","e","c","u","r","e">>
               ELSE IF k = k2 THEN <<"H","o","s","t","(">> \o <<Backtick>> \o name \o <<".","l","o","c","a","l">> \o <<Backtick>> \o <<")">>
               ELSE <<"t","r","u","e">>])

IsCandidateSkipsProxyCheck(container, classification) ==
    IF is_reverse_proxy(container).raised THEN Raise
    ELSE IF StartsWith(classification, <<"a","l","r","e","a","d","y","_","p","r","o","x","i","e","d">>)
    THEN Ret(<<FALSE, <<"A","l","r","e","a","d","y"," ","p","r","o","x","i","e","d"," ","(">> \o classification \o <<")">>>>)
    ELSE IF classification = exposed_directly \/ classification = internal_only
    THEN Ret(<<is_http_service(container).val, <<"H","T","T","P"," ","s","e","r","v","i","c","e">>>>)
    ELSE Ret(<<FALSE, <<"N","e","e","d","s"," ","m","a","n","u","a","l"," ","r","e","v","i","e","w">>>>)

is_candidate_for_migration(container, classification) ==
    LET rp == is_reverse_proxy(container)
    IN IF rp.raised THEN Raise
       ELSE IF rp.val THEN Ret(<<FALSE, <<"C","o","n","t","a","i","n","e","r"," ","i","s"," ","a"," ","r","e","v","e","r","s","e"," ","p","r","o","x","y">>>>)
       ELSE IF StartsWith(classification, <<"a","l","r","e","a","d","y","_","p","r","o","x","i","e","d">>)
       THEN Ret(<<FALSE, <<"A","l","r","e","a","d","y"," ","p","r","o","x","i","e","d"," ","(">> \o classification \o <<")">>>>)
       ELSE IF classification = exposed_directly
       THEN (IF is_http_service(container).val
             THEN Ret(<<TRUE, <<"H","T","T","P"," ","s","e","r","v","i","c","e"," ","e","x","p","o","s","e","d"," ","d","i","r","e","c","t","l","y"," ","-"," ","g","o","o","d"," ","m","i","g","r","a","t","i","o","n"," ","c","a","n","d","i","d","a","t","e">>>>)
             ELSE Ret(<<FALSE, <<"E","x","p","o","s","e","d"," ","d","i","r","e","c","t","l","y"," ","b","u","t"," ","n","o","t"," ","a","n"," ","H","T","T","P"," ","s","e","r","v","i","c","e">>>>))
       ELSE IF classification = internal_only
       THEN (IF is_http_service(container).val
             THEN Ret(<<TRUE, <<"I","n","t","e","r","n","a","l"," ","H","T","T","P"," ","s","e","r","v","i","c","e"," ","-"," ","c","o","u","l","d"," ","b","e","n","e","f","i","t"," ","f","r","o","m"," ","p","r","o","x","y"," ","e","x","p","o","s","u","r","e">>>>)
             ELSE Ret(<<FALSE, <<"I","n","t","e","r","n","a","l"," ","s","e","r","v","i","c","e",","," ","n","o","t"," ","H","T","T","P">>>>))
       ELSE Ret(<<FALSE, <<"N","e","e","d","s"," ","m","a","n","u","a","l"," ","r","e","v","i","e","w">>>>)

NonHttpPort(port) == ~InList(SplitHead(port, "/"), HTTP_SERVICE_PORTS)
NonHttpNote(port) ==
    <<"N","o","n","-","H","T","T","P"," ","p","o","r","t"," ">> \o SplitHead(port, "/") \o <<" ","-"," ","m","a","y"," ","n","e","e","d"," ","T","C","P","/","U","D","P"," ","r","o","u","t","e","r">>
StatefulNote(svc) == <<"S","t","a","t","e","f","u","l"," ","d","a","t","a","b","a","s","e"," ","s","e","r","v","i","c","e"," ","-"," ","t","y","p","i","c","a","l","l","y"," ","n","o","t"," ","p","r","o","x","i","e","d">>

analyze_risks(container, published_ports) ==
    LET exposed == get_exposed_ports(container).val
        labels == ConfigLabels(container)
        image == Lower(container.Config.Image)
        InImage(svc) == Contains(svc, image)
    IN Ret((IF Cardinality(DOMAIN published_ports) > 1
            THEN << <<"M","u","l","t","i","p","l","e"," ","p","u","b","l","i","s","h","e","d"," ","p","o","r","t","s"," ","-"," ","m","a","y"," ","n","e","e","d"," ","s","e","p","a","r","a","t","e"," ","r","o","u","t","e","r","s">> >>
            ELSE <<>>)
           \o MapSeq(NonHttpNote, SelectSeq(exposed, NonHttpPort))
           \o (IF \E k \in DOMAIN labels : Contains(<<"a","u","t","h">>, Lower(k))
               THEN << <<"M","a","y"," ","h","a","v","e"," ","a","u","t","h","e","n","t","i","c","a","t","i","o","n"," ","r","e","q","u","i","r","e","m","e","n","t","s">> >>
               ELSE <<>>)
           \o MapSeq(StatefulNote, SelectSeq(stateful, InImage)))

----------------------------------------------------------------------------
\* The container records the functions are applied to

MaxLabels == 2
MaxEnv == 1
MaxContainers == 3

ImagePool == { <<"m","y","a","p","p","/","a","p","i",":","1",".","0">>, <<"r","e","d","i","s",":","7">>, <<"T","r","a","e","f","i","k",":","v","2">>, <<"n","g","i","n","x",":","1",".","2","5">> }

LabelPool ==
    { << <<"t","r","a","e","f","i","k",".","e","n","a","b","l","e">>, <<"T","r","u","e">> >>,
      << <<"t","r","a","e","f","i","k",".","e","n","a","b","l","e">>, <<"f","a","l","s","e">> >>,
      << <<"t","r","a","e","f","i","k",".","h","t","t","p",".","r","o","u","t","e","r","s",".","a","p","p",".","r","u","l","e">>, <<"H","o","s","t","(","a","p","p",")">> >>,
      << <<"c","a","d","d","y">>, <<"a","p","p",".","l","o","c","a","l">> >>,
      << <<"c","o","m",".","T","r","a","e","f","i","k",".","a","u","t","h">>, <<"b","a","s","i","c">> >> }

LabelKeys(S) == {p[1] : p \in S}

\* the label dicts of at most MaxLabels labels (the keys of a dict are unique)
LabelDicts ==
    { [k \in LabelKeys(S) |-> (CHOOSE p \in S : p[1] = k)[2]] :
        S \in {T \in SUBSET LabelPool :
                 Cardinality(T) <= MaxLabels /\ Cardinality(LabelKeys(T)) = Cardinality(T)} }

LabelMembers == {Absent, Null} \cup {Val(d) : d \in LabelDicts}

EnvPool == { <<"V","I","R","T","U","A","L","_","H","O","S","T","=","a",".","l","o","c","a","l">>, <<"V","I","R","T","U","A","L","_","H","O","S","T","=","b","=","c">>, <<"V","I","R","T","U","A","L","_","P","O","R","T">> }

\* the Env lists of at most MaxEnv entries
EnvMembers ==
    {Null} \cup {Val(e) : e \in UNION {[1..n -> EnvPool] : n \in 0..MaxEnv}}

ExposedMembers ==
    { Absent,
      Val(<< <<"6","3","7","9","/","t","c","p">>, <<"8","0","8","0","/","t","c","p">> >>),
      Val(<< <<"3","0","0","0","/","t","c","p">>, <<"8","0","8","0","/","t","c","p">> >>) }

Binding(port) == [HostIp |-> <<"0",".","0",".","0",".","0">>, HostPort |-> port]

PortsMembers ==
    { Null,
      Val(<<"8","0","8","0","/","t","c","p">> :> Val(<<Binding(<<"8","0","8","0">>)>>)),
      Val(<<"8","0","8","0","/","t","c","p">> :> Null),
      Val((<<"8","0","/","t","c","p">> :> Val(<<Binding(<<"8","0">>)>>))
          @@ (<<"4","4","3","/","t","c","p">> :> Val(<<Binding(<<"4","4","3">>)>>))) }

NetworksMembers == { Null, Val(<< <<"E","d","g","e","_","N","e","t">> >>) }

\* NetworkSettings as `docker inspect` prints it, an object, or left out
NetworkSettingsMembers ==
    {Absent}
    \cup {Val([Ports |-> p, Networks |-> n]) : p \in PortsMembers, n \in NetworksMembers}

MkContainer(id, name, image, labels, env, exposed, ns) ==
    [Id |-> id,
     Name |-> name,
     State |-> [Status |-> <<"r","u","n","n","i","n","g">>],
     Config |-> [Image |-> image, Labels |-> labels, Env |-> env, ExposedPorts |-> exposed],
     NetworkSettings |-> ns]

\* every combination of the members above, under one identity
Records ==
    { MkContainer(<<"0","1","2","3","4","5","6","7","8","9","a","b","c","d","e","f">>, <<"/","m","y","-","a","p","p",".","a","p","i">>, image, labels, env, exposed, ns) :
        image \in ImagePool, labels \in LabelMembers, env \in EnvMembers,
        exposed \in ExposedMembers, ns \in NetworkSettingsMembers }

Bridge(ports) == Val([Ports |-> ports, Networks |-> Val(<< <<"b","r","i","d","g","e">> >>)])
NoPorts == Val(<<>>)
Port8080 == Val(<<"8","0","8","0","/","t","c","p">> :> Val(<<Binding(<<"8","0","8","0">>)>>))
Ports80And443 ==
    Val((<<"8","0","/","t","c","p">> :> Val(<<Binding(<<"8","0">>)>>)) @@ (<<"4","4","3","/","t","c","p">> :> Val(<<Binding(<<"4","4","3">>)>>)))

\* records with optional substructures missing or null, NetworkSettings
\* included
MissingRecords ==
    { MkContainer(<<"0","1","2","3","4","5","6","7","8","9","a","b","c","d","e","f">>, <<"/","m","y","-","a","p","p",".","a","p","i">>, image, labels, env, exposed, ns) :
        image \in { <<"r","e","d","i","s",":","7">>, <<"T","r","a","e","f","i","k",":","v","2">> },
        labels \in { Absent, Null, Val(<<"t","r","a","e","f","i","k",".","e","n","a","b","l","e">> :> <<"f","a","l","s","e">>) },
        env \in { Absent, Null, Val(<< <<"V","I","R","T","U","A","L","_","P","O","R","T">> >>), Val(<< <<"V","I","R","T","U","A","L","_","H","O","S","T","=","a",".","l","o","c","a","l">> >>) },
        exposed \in { Absent, Null, Val(<< <<"6","3","7","9","/","t","c","p">>, <<"8","0","8","0","/","t","c","p">> >>) },
        ns \in {Absent, Null}
               \cup {Val([Ports |-> p, Networks |-> n]) :
                        p \in {Absent, Null, Port8080},
                        n \in {Absent, Null, Val(<< <<"E","d","g","e","_","N","e","t">> >>)}} }

\* a snapshot as `docker inspect` prints it: a reverse proxy by image, one by
\* ports and label, and workloads of every classification
Snapshot ==
    << MkContainer(<<"a","0","0","0","0","0","0","0","0","0","0","1","f","f","f","f">>, <<"/","t","r","a","e","f","i","k">>, <<"t","r","a","e","f","i","k",":","v","2",".","1","0">>,
                   Null, Null, Val(<< <<"8","0","/","t","c","p">>, <<"4","4","3","/","t","c","p">> >>),
                   Val([Ports |-> Ports80And443, Networks |-> Val(<< <<"e","d","g","e">> >>)])),
       MkContainer(<<"a","0","0","0","0","0","0","0","0","0","0","2","f","f","f","f">>, <<"/","r","o","u","t","e","r">>, <<"c","o","r","p","/","r","o","u","t","e","r",":","1">>,
                   Val(<<"T","r","a","e","f","i","k",".","R","o","l","e">> :> <<"e","d","g","e">>), Null, Absent, Bridge(Ports80And443)),
       MkContainer(<<"a","0","0","0","0","0","0","0","0","0","0","3","f","f","f","f">>, <<"/","m","y","-","a","p","p",".","a","p","i">>, <<"m","y","a","p","p","/","a","p","i",":","1",".","0">>,
                   Null, Val(<< <<"P","A","T","H","=","/","b","i","n">> >>), Val(<< <<"8","0","8","0","/","t","c","p">> >>), Bridge(Port8080)),
       MkContainer(<<"a","0","0","0","0","0","0","0","0","0","0","4","f","f","f","f">>, <<"/","c","a","c","h","e">>, <<"r","e","d","i","s",":","7">>,
                   Val(<<>>), Null, Val(<< <<"6","3","7","9","/","t","c","p">> >>), Bridge(NoPorts)),
       MkContainer(<<"a","0","0","0","0","0","0","0","0","0","0","5","f","f","f","f">>, <<"/","w","h","o","a","m","i">>, <<"w","e","b","/","w","h","o","a","m","i">>,
                   Val(<<"t","r","a","e","f","i","k",".","e","n","a","b","l","e">> :> <<"t","r","u","e">>), Null, Val(<< <<"8","0","/","t","c","p">> >>),
                   Bridge(NoPorts)),
       MkContainer(<<"a","0","0","0","0","0","0","0","0","0","0","6","f","f","f","f">>, <<"/","b","l","o","g">>, <<"g","h","o","s","t",":","5">>,
                   Null, Val(<< <<"V","I","R","T","U","A","L","_","H","O","S","T","=","b","l","o","g",".","l","o","c","a","l">> >>), Val(<< <<"2","3","6","8","/","t","c","p">> >>),
                   Bridge(NoPorts)),
       MkContainer(<<"a","0","0","0","0","0","0","0","0","0","0","7","f","f","f","f">>, <<"/","l","e","g","a","c","y">>, <<"l","e","g","a","c","y","/","h","t","t","p","-","a","p","p">>,
                   Val(<<"t","r","a","e","f","i","k",".","e","n","a","b","l","e">> :> <<"f","a","l","s","e">>), Null, Val(<< <<"8","0","8","0","/","t","c","p">> >>),
                   Bridge(Port8080)),
       MkContainer(<<"a","0","0","0","0","0","0","0","0","0","0","8","f","f","f","f">>, <<"/","d","a","s","h">>, <<"m","y","a","p","p","/","w","e","b","-","u","i">>,
                   Null, Null, Val(<< <<"3","0","0","0","/","t","c","p">>, <<"8","0","8","0","/","t","c","p">> >>), Bridge(Port8080)),
       MkContainer(<<"a","0","0","0","0","0","0","0","0","0","0","a","f","f","f","f">>, <<"/","f","l","a","s","k","-","a","p","p">>, <<"c","o","r","p","/","f","l","a","s","k","-","a","p","p">>,
                   Absent, Absent, Absent, Bridge(Null)),
       MkContainer(<<"a","0","0","0","0","0","0","0","0","0","0","b","f","f","f","f">>, <<"/","w","i","k","i">>, <<"c","o","r","p","/","d","j","a","n","g","o","-","w","i","k","i">>,
                   Null, Null, Val(<< <<"8","0","0","0","/","t","c","p">> >>),
                   Bridge(Val(<<"8","0","0","0","/","t","c","p">> :> Null))) >>

\* the container lists main is run on: up to MaxContainers distinct containers
\* of the snapshot, in any order
ContainerLists ==
    UNION { {s \in [1..n -> 1..Len(Snapshot)] : \A a, b \in 1..n : a # b => s[a] # s[b]} :
              n \in 0..MaxContainers }

----------------------------------------------------------------------------
\* main: the analysis loop and the manifest

\* container['Id'][:12]
IdPrefixLen == 12

\* the dict appended to reverse_proxies
ProxyEntry(container) ==
    [container_id |-> Prefix(container.Id, IdPrefixLen),
     container_name |-> LStrip(container.Name, "/"),
     image |-> container.Config.Image,
     status |-> container.State.Status,
     networks |-> ContainerNetworks(container).val,
     published_ports |-> get_published_ports(container).val]

\* the dict appended to inventory
AnalysisEntry(container) ==
    LET name == LStrip(container.Name, "/")
        published_ports == get_published_ports(container).val
        classification == classify_container(container).val
        candidacy == is_candidate_for_migration(container, classification).val
        is_candidate == candidacy[1]
    IN [container_id |-> Prefix(container.Id, IdPrefixLen),
        container_name |-> name,
        image |-> container.Config.Image,
        status |-> container.State.Status,
        networks |-> ContainerNetworks(container).val,
        published_ports |-> published_ports,
        exposed_ports |-> get_exposed_ports(container).val,
        detected_proxy_signals |-> detect_proxy_signals(container).val,
        classification |-> classification,
        candidate_for_migration |-> is_candidate,
        migration_reason |-> candidacy[2],
        recommended_labels |->
            IF is_candidate THEN generate_recommended_labels(container).val ELSE <<>>,
        recommended_hostnames |->
            IF is_candidate THEN <<name \o <<".","l","o","c","a","l">>>> ELSE <<>>,
        risks_notes |-> analyze_risks(container, published_ports).val]

\* the branch of the loop body taken for a reverse proxy, ending in continue
LoopReverseProxy ==
    /\ pc = "loop" /\ i <= Len(containers)
    /\ is_reverse_proxy(containers[i]).val
    /\ reverse_proxies' = Append(reverse_proxies, ProxyEntry(containers[i]))
    /\ i' = i + 1
    /\ UNCHANGED <<containers, pc, inventory, manifest, j>>
    /\ UNCHANGED fnVars

AnalyzeContainerNoContinue ==
    /\ pc = "loop" /\ i <= Len(containers)
    /\ inventory' = Append(inventory, AnalysisEntry(containers[i]))
    /\ reverse_proxies' = IF is_reverse_proxy(containers[i]).val
                          THEN Append(reverse_proxies, ProxyEntry(containers[i]))
                          ELSE reverse_proxies
    /\ i' = i + 1
    /\ UNCHANGED <<containers, pc, manifest, j>>
    /\ UNCHANGED fnVars

AnalyzeContainerPrepends ==
    /\ pc = "loop" /\ i <= Len(containers)
    /\ ~is_reverse_proxy(containers[i]).val
    /\ inventory' = <<AnalysisEntry(containers[i])>> \o inventory
    /\ i' = i + 1
    /\ UNCHANGED <<containers, pc, reverse_proxies, manifest, j>>
    /\ UNCHANGED fnVars

AnalyzeContainerAlwaysRecommends ==
    /\ pc = "loop" /\ i <= Len(containers)
    /\ ~is_reverse_proxy(containers[i]).val
    /\ inventory' = Append(inventory,
           [AnalysisEntry(containers[i]) EXCEPT
               !.recommended_labels = generate_recommended_labels(containers[i]).val])
    /\ i' = i + 1
    /\ UNCHANGED <<containers, pc, reverse_proxies, manifest, j>>
    /\ UNCHANGED fnVars

\* the rest of the loop body, for a container that is not a reverse proxy
AnalyzeContainer ==
    /\ pc = "loop" /\ i <= Len(containers)
    /\ ~is_reverse_proxy(containers[i]).val
    /\ inventory' = Append(inventory, AnalysisEntry(containers[i]))
    /\ i' = i + 1
    /\ UNCHANGED <<containers, pc, reverse_proxies, manifest, j>>
    /\ UNCHANGED fnVars

\* the manifest literal built after the loop (generated_at, the clock's
\* reading, is left out)
BuildManifest ==
    /\ pc = "loop" /\ i > Len(containers)
    /\ manifest' =
          [summary |-> [total_containers |-> Len(inventory),
                        reverse_proxies_detected |-> Len(reverse_proxies),
                        by_classification |-> <<>>,
                        migration_candidates |-> 0],
           reverse_proxies |-> reverse_proxies,
           containers |-> inventory]
    /\ pc' = "count"
    /\ j' = 1
    /\ UNCHANGED <<containers, i, reverse_proxies, inventory>>
    /\ UNCHANGED fnVars

\* by_classification[cls] = by_classification.get(cls, 0) + 1
Increment(d, cls) ==
    [k \in DOMAIN d \cup {cls} |->
        IF k = cls THEN (IF cls \in DOMAIN d THEN d[cls] ELSE 0) + 1 ELSE d[k]]

CountEntryCountsAll ==
    /\ pc = "count" /\ j <= Len(inventory)
    /\ manifest' =
          [manifest EXCEPT
              !.summary.by_classification = Increment(@, inventory[j].classification),
              !.summary.migration_candidates = @ + 1]
    /\ j' = j + 1
    /\ UNCHANGED <<containers, pc, i, reverse_proxies, inventory>>
    /\ UNCHANGED fnVars

\* one pass of the counting loop
CountEntry ==
    /\ pc = "count" /\ j <= Len(inventory)
    /\ manifest' =
          [manifest EXCEPT
              !.summary.by_classification = Increment(@, inventory[j].classification),
              !.summary.migration_candidates =
                  IF inventory[j].candidate_for_migration THEN @ + 1 ELSE @]
    /\ j' = j + 1
    /\ UNCHANGED <<containers, pc, i, reverse_proxies, inventory>>
    /\ UNCHANGED fnVars

\* the counting loop is over: the manifest is handed to the writers
WriteOutputs ==
    /\ pc = "count" /\ j > Len(inventory)
    /\ pc' = "done"
    /\ UNCHANGED <<containers, i, reverse_proxies, inventory, manifest, j>>
    /\ UNCHANGED fnVars

----------------------------------------------------------------------------
\* One call of one function of the engine on one record

\* the classification arguments of is_candidate_for_migration
ClassificationArgs == Classifications \cup { <<"a","l","r","e","a","d","y","_","p","r","o","x","i","e","d","_","h","a","p","r","o","x","y">> }

\* the published_ports arguments of analyze_risks
PublishedArgs ==
    { <<>>,
      (<<"8","0","/","t","c","p">> :> << <<"0",".","0",".","0",".","0",":","8","0">> >>) @@ (<<"4","4","3","/","t","c","p">> :> << <<"0",".","0",".","0",".","0",":","4","4","3">> >>) }

Returns(name, a, outcome) ==
    /\ call = "none"
    /\ call' = name
    /\ arg' = a
    /\ ret' = outcome
    /\ UNCHANGED rec
    /\ UNCHANGED mainVars

CallIsReverseProxy == Returns("is_reverse_proxy", <<>>, is_reverse_proxy(rec))
CallDetectProxySignals == Returns("detect_proxy_signals", <<>>, detect_proxy_signals(rec))
CallGetPublishedPorts == Returns("get_published_ports", <<>>, get_published_ports(rec))
CallGetExposedPorts == Returns("get_exposed_ports", <<>>, get_exposed_ports(rec))
CallClassifyContainer == Returns("classify_container", <<>>, classify_container(rec))
CallIsHttpService == Returns("is_http_service", <<>>, is_http_service(rec))
CallGenerateRecommendedLabels ==
    Returns("generate_recommended_labels", <<>>, generate_recommended_labels(rec))
CallIsCandidateForMigration ==
    \E cls \in ClassificationArgs :
        Returns("is_candidate_for_migration", cls, is_candidate_for_migration(rec, cls))
CallAnalyzeRisks ==
    \E pp \in PublishedArgs : Returns("analyze_risks", pp, analyze_risks(rec, pp))

----------------------------------------------------------------------------
\* The specifications

\* main, run on a list of containers
Init ==
    /\ \E s \in ContainerLists : containers = [n \in 1..Len(s) |-> Snapshot[s[n]]]
    /\ pc = "loop"
    /\ i = 1
    /\ reverse_proxies = <<>>
    /\ inventory = <<>>
    /\ manifest = <<>>
    /\ j = 0
    /\ rec = <<>>
    /\ arg = <<>>
    /\ call = "main"
    /\ ret = Ret(<<>>)

Next ==
    \/ LoopReverseProxy
    \/ AnalyzeContainer
    \/ BuildManifest
    \/ CountEntry
    \/ WriteOutputs

Spec == Init /\ [][Next]_vars

\* one function applied to one record
InitFn ==
    /\ rec \in Records
    /\ arg = <<>>
    /\ call = "none"
    /\ ret = Ret(<<>>)
    /\ containers = <<>>
    /\ pc = "idle"
    /\ i = 0
    /\ reverse_proxies = <<>>
    /\ inventory = <<>>
    /\ manifest = <<>>
    /\ j = 0

NextFn ==
    \/ CallIsReverseProxy
    \/ CallDetectProxySignals
    \/ CallGetPublishedPorts
    \/ CallGetExposedPorts
    \/ CallClassifyContainer
    \/ CallIsHttpService
    \/ CallGenerateRecommendedLabels
    \/ CallIsCandidateForMigration
    \/ CallAnalyzeRisks

SpecFn == InitFn /\ [][NextFn]_vars

\* one function applied to one record with missing or null substructures
InitMissing ==
    /\ rec \in MissingRecords
    /\ arg = <<>>
    /\ call = "none"
    /\ ret = Ret(<<>>)
    /\ containers = <<>>
    /\ pc = "idle"
    /\ i = 0
    /\ reverse_proxies = <<>>
    /\ inventory = <<>>
    /\ manifest = <<>>
    /\ j = 0

SpecMissing == InitMissing /\ [][NextFn]_vars

----------------------------------------------------------------------------
\* Properties of main (specification Spec)

Range(s) == {s[n] : n \in 1..Len(s)}

\* the containers the loop has passed
Processed == SubSeq(containers, 1, i - 1)

EntryId(e) == e.container_id
ShortId(container) == Prefix(container.Id, IdPrefixLen)
Occurrences(list, id) == Cardinality({n \in 1..Len(list) : list[n].container_id = id})

\* the input container an output entry was made from
SourceOf(e) == CHOOSE c \in Range(containers) : ShortId(c) = e.container_id

IsProxy(container) == is_reverse_proxy(container).val
NotProxy(container) == ~is_reverse_proxy(container).val

\* C1: every container the loop has passed is in exactly one output list:
\* in reverse_proxies when is_reverse_proxy holds of it, in inventory
\* otherwise; no reverse proxy is in inventory or carries a classification,
\* and no other container is in reverse_proxies.
C1_Partition ==
    /\ \A n \in 1..Len(Processed) :
          LET c == Processed[n]
          IN IF IsProxy(c)
             THEN /\ Occurrences(reverse_proxies, ShortId(c)) = 1
                  /\ Occurrences(inventory, ShortId(c)) = 0
             ELSE /\ Occurrences(inventory, ShortId(c)) = 1
                  /\ Occurrences(reverse_proxies, ShortId(c)) = 0
    /\ Len(reverse_proxies) + Len(inventory) = Len(Processed)
    /\ \A n \in 1..Len(reverse_proxies) :
          /\ "classification" \notin DOMAIN reverse_proxies[n]
          /\ \E c \in Range(Processed) :
                ShortId(c) = reverse_proxies[n].container_id /\ IsProxy(c)
    /\ \A n \in 1..Len(inventory) :
          \E c \in Range(Processed) :
              ShortId(c) = inventory[n].container_id /\ NotProxy(c)
    /\ pc \in {"count", "done"} => Len(Processed) = Len(containers)

C1_Witness ==
    /\ pc = "done"
    /\ Len(reverse_proxies) >= 1
    /\ Len(inventory) >= 1
    /\ Len(reverse_proxies) + Len(inventory) = Len(containers)

RECURSIVE SumOver(_, _)
SumOver(f, S) ==
    IF S = {} THEN 0
    ELSE LET k == CHOOSE x \in S : TRUE IN f[k] + SumOver(f, S \ {k})

CountOf(d, cls) == IF cls \in DOMAIN d THEN d[cls] ELSE 0

\* C2: while counting, after the first j - 1 entries the per-classification
\* counters and the candidate counter are the counts over those entries; at
\* the end the per-classification counters sum to total_containers, the
\* number of inventory entries, reverse_proxies_detected is the number of
\* reverse proxies and migration_candidates the number of candidates.
C2_Counters ==
    pc \in {"count", "done"} =>
        LET summary == manifest.summary
            visited == 1..(j - 1)
        IN /\ DOMAIN summary.by_classification \subseteq Classifications
           /\ \A cls \in Classifications :
                 CountOf(summary.by_classification, cls)
                     = Cardinality({n \in visited : inventory[n].classification = cls})
           /\ summary.migration_candidates
                 = Cardinality({n \in visited : inventory[n].candidate_for_migration})
           /\ summary.total_containers = Len(inventory)
           /\ summary.reverse_proxies_detected = Len(reverse_proxies)
           /\ manifest.containers = inventory
           /\ manifest.reverse_proxies = reverse_proxies
           /\ pc = "done" =>
                 /\ j - 1 = Len(inventory)
                 /\ SumOver(summary.by_classification, DOMAIN summary.by_classification)
                       = summary.total_containers

C2_Witness ==
    /\ pc = "done"
    /\ manifest.summary.total_containers = 3
    /\ manifest.summary.migration_candidates = 1
    /\ Cardinality(DOMAIN manifest.summary.by_classification) = 2

\* C4: an entry that is no candidate has no recommended label and no
\* recommended hostname; a candidate has exactly five labels, traefik.enable
\* being 'true', and the one hostname <name>.local; so no already_proxied
\* entry carries a recommendation.
C4_Recommendations ==
    \A n \in 1..Len(inventory) :
        LET e == inventory[n]
        IN /\ ~e.candidate_for_migration =>
                 /\ DOMAIN e.recommended_labels = {}
                 /\ Len(e.recommended_hostnames) = 0
           /\ e.candidate_for_migration =>
                 /\ Cardinality(DOMAIN e.recommended_labels) = 5
                 /\ <<"t","r","a","e","f","i","k",".","e","n","a","b","l","e">> \in DOMAIN e.recommended_labels
                 /\ e.recommended_labels[<<"t","r","a","e","f","i","k",".","e","n","a","b","l","e">>] = <<"t","r","u","e">>
                 /\ e.recommended_hostnames
                       = << LStrip(SourceOf(e).Name, "/") \o <<".","l","o","c","a","l">> >>
           /\ StartsWith(e.classification, <<"a","l","r","e","a","d","y","_","p","r","o","x","i","e","d">>) =>
                 /\ DOMAIN e.recommended_labels = {}
                 /\ Len(e.recommended_hostnames) = 0

C4_Witness ==
    /\ pc = "done"
    /\ \E n \in 1..Len(inventory) : inventory[n].candidate_for_migration
    /\ \E n \in 1..Len(inventory) :
          /\ StartsWith(inventory[n].classification, <<"a","l","r","e","a","d","y","_","p","r","o","x","i","e","d">>)
          /\ ~inventory[n].candidate_for_migration

\* the value of the load-balancer port label of an entry
PortLabel(e) ==
    e.recommended_labels[CHOOSE k \in DOMAIN e.recommended_labels :
                             StartsWith(k, <<"t","r","a","e","f","i","k",".","h","t","t","p",".","s","e","r","v","i","c","e","s",".">>)]

HttpPortNumber(port) == InList(SplitHead(port, "/"), HTTP_SERVICE_PORTS)

ImageHasWebPattern(image) ==
    \E n \in 1..Len(web_patterns) : Contains(web_patterns[n], Lower(image))

\* the case C6 is about: 8080/tcp published, no proxy signal, a web image
C6_Case(e) ==
    /\ <<"8","0","8","0","/","t","c","p">> \in DOMAIN e.published_ports
    /\ ~e.detected_proxy_signals.has_proxy_signals
    /\ ImageHasWebPattern(e.image)

C6_Outcome(e) ==
    /\ e.classification = exposed_directly
    /\ is_http_service(SourceOf(e)).val
    /\ e.candidate_for_migration
    /\ e.recommended_hostnames = << LStrip(SourceOf(e).Name, "/") \o <<".","l","o","c","a","l">> >>

\* C6 as claimed: in that case the entry is exposed_directly, an HTTP service
\* and a candidate with hostname <name>.local, and its load-balancer port
\* label is '8080', the published HTTP port.
C6_PortIsPublishedPort ==
    \A n \in 1..Len(inventory) :
        C6_Case(inventory[n]) =>
            C6_Outcome(inventory[n]) /\ PortLabel(inventory[n]) = <<"8","0","8","0">>

\* C6 as amended: in that case the entry is exposed_directly, an HTTP service
\* and a candidate with hostname <name>.local; the load-balancer port label of
\* a candidate is the number of the first exposed port (in ExposedPorts order)
\* that is an HTTP port, and '80' when no exposed port is one, whatever ports
\* are published: '8080' when 8080 is that first exposed HTTP port.
C6_PortIsFirstExposedHttpPort ==
    \A n \in 1..Len(inventory) :
        LET e == inventory[n]
            hits == {m \in 1..Len(e.exposed_ports) : HttpPortNumber(e.exposed_ports[m])}
        IN /\ C6_Case(e) => C6_Outcome(e)
           /\ e.candidate_for_migration =>
                 /\ hits = {} => PortLabel(e) = <<"8","0">>
                 /\ \A m \in hits :
                       (\A q \in hits : m <= q) =>
                           PortLabel(e) = SplitHead(e.exposed_ports[m], "/")

C6_Witness ==
    /\ pc = "done"
    /\ \E n \in 1..Len(inventory) :
          /\ C6_Case(inventory[n])
          /\ PortLabel(inventory[n]) = <<"8","0","8","0">>
    /\ \E n \in 1..Len(inventory) :
          /\ C6_Case(inventory[n])
          /\ PortLabel(inventory[n]) = <<"3","0","0","0">>
    /\ \E n \in 1..Len(inventory) :
          /\ inventory[n].candidate_for_migration
          /\ Len(inventory[n].exposed_ports) = 0
          /\ PortLabel(inventory[n]) = <<"8","0">>

\* the ids of the containers passed so far that are (not) reverse proxies,
\* in input order
IdsInOrder(keep(_)) == MapSeq(ShortId, SelectSeq(Processed, keep))

C8_OrderNow ==
    /\ MapSeq(EntryId, inventory) = IdsInOrder(NotProxy)
    /\ MapSeq(EntryId, reverse_proxies) = IdsInOrder(IsProxy)
    /\ pc \in {"count", "done"} =>
          manifest.containers = inventory /\ manifest.reverse_proxies = reverse_proxies

GrowsAtEnd(old, new) ==
    \/ new = old
    \/ Len(new) = Len(old) + 1 /\ SubSeq(new, 1, Len(old)) = old

\* C8: the output lists hold the entries of the containers passed so far in
\* input order, one entry each, and every step either leaves a list alone or
\* appends one entry at its end.
C8_InputOrder ==
    /\ []C8_OrderNow
    /\ [][/\ GrowsAtEnd(inventory, inventory')
          /\ GrowsAtEnd(reverse_proxies, reverse_proxies')]_vars

C8_Witness ==
    /\ pc = "done"
    /\ Len(inventory) >= 2
    /\ Len(reverse_proxies) >= 1
    /\ IsProxy(containers[2])

----------------------------------------------------------------------------
\* Properties of the functions (specification SpecFn)

Signals == detect_proxy_signals(rec).val
Published == get_published_ports(rec).val
Networks == ContainerNetworks(rec).val

Returned(name) == call = name /\ ~ret.raised

\* C3: is_candidate_for_migration returns true exactly when the container is
\* not a reverse proxy, the classification is exposed_directly or
\* internal_only and is_http_service holds; an already_proxied* or
\* unknown_needs_review classification never gives true; for a reverse proxy
\* the first rule answers, whatever the classification.
C3_CandidateIff ==
    call = "is_candidate_for_migration" =>
        LET returnsTrue == ~ret.raised /\ ret.val[1]
            proxy == is_reverse_proxy(rec)
        IN /\ ~ret.raised
           /\ returnsTrue <=>
                 /\ ~proxy.raised /\ ~proxy.val
                 /\ arg \in {exposed_directly, internal_only}
                 /\ is_http_service(rec).val
           /\ (StartsWith(arg, <<"a","l","r","e","a","d","y","_","p","r","o","x","i","e","d">>) \/ arg = unknown_needs_review) =>
                 ~ret.val[1]
           /\ (~proxy.raised /\ proxy.val) =>
                 ret.val = <<FALSE, <<"C","o","n","t","a","i","n","e","r"," ","i","s"," ","a"," ","r","e","v","e","r","s","e"," ","p","r","o","x","y">>>>

C3_Witness ==
    /\ Returned("is_candidate_for_migration")
    /\ ret.val[1]
    /\ arg = internal_only
    /\ DOMAIN Published # {}

\* the case C5 is about: Traefik labels, traefik.enable = 'false', no network
\* matching a proxy network pattern
C5_Case ==
    /\ DOMAIN Signals.traefik_labels # {}
    /\ <<"t","r","a","e","f","i","k",".","e","n","a","b","l","e">> \in DOMAIN Signals.traefik_labels
    /\ Signals.traefik_labels[<<"t","r","a","e","f","i","k",".","e","n","a","b","l","e">>] = <<"f","a","l","s","e">>
    /\ ~is_in_proxy_network(Networks)

OtherProxySignal ==
    DOMAIN Signals.nginx_proxy_env # {} \/ DOMAIN Signals.caddy_labels # {}

\* C5 as claimed: in that case classify_container returns
\* unknown_needs_review, whatever the environment, the other labels and the
\* published ports are.
C5_AlwaysUnknown ==
    (Returned("classify_container") /\ C5_Case) => ret.val = unknown_needs_review

\* C5 as amended: in that case classify_container never returns
\* already_proxied_traefik; it returns already_proxied_other (rule 2) when the
\* container has an nginx-proxy variable or a Caddy label, and
\* unknown_needs_review (rule 5) otherwise, with or without published ports.
C5_NeverTraefik ==
    (call = "classify_container" /\ C5_Case) =>
        /\ ~ret.raised
        /\ ret.val # already_proxied_traefik
        /\ ret.val = IF OtherProxySignal THEN already_proxied_other
                     ELSE unknown_needs_review

C5_Witness ==
    /\ Returned("classify_container")
    /\ C5_Case
    /\ OtherProxySignal
    /\ ret.val = already_proxied_other

\* what the classification may depend on
ClassifyKey(container) ==
    << detect_proxy_signals(container).val,
       DOMAIN get_published_ports(container).val = {},
       is_in_proxy_network(ContainerNetworks(container).val) >>

\* C7: classify_container returns one of the five values, and the value is
\* fixed by the proxy signals, by whether the published-port mapping is empty
\* and by whether a network matches a proxy network pattern: it is the rule
\* chain's value on those three alone, and every container of the snapshot
\* that agrees on them has the same classification.
C7_TotalAndDetermined ==
    call = "classify_container" =>
        /\ ~ret.raised
        /\ ret.val \in Classifications
        /\ ret.val = Classify(Signals,
                              IF DOMAIN Published = {} THEN <<>> ELSE <<TRUE>>,
                              IF is_in_proxy_network(Networks)
                              THEN << <<"p","r","o","x","y">> >> ELSE <<>>)
        /\ \A n \in 1..Len(Snapshot) :
              ClassifyKey(Snapshot[n]) = ClassifyKey(rec) =>
                  classify_container(Snapshot[n]).val = ret.val

C7_Witness ==
    /\ Returned("classify_container")
    /\ \E n \in 1..Len(Snapshot) :
          /\ ClassifyKey(Snapshot[n]) = ClassifyKey(rec)
          /\ Snapshot[n].Config.Image # rec.Config.Image
          /\ get_published_ports(Snapshot[n]).val # Published
          /\ Snapshot[n].Config.ExposedPorts # rec.Config.ExposedPorts

Rule1 ==
    /\ DOMAIN Signals.traefik_labels # {}
    /\ \/ Lower(StrGet(Signals.traefik_labels, <<"t","r","a","e","f","i","k",".","e","n","a","b","l","e">>)) = <<"t","r","u","e">>
       \/ is_in_proxy_network(Networks)

\* C9 as claimed: unknown_needs_review is returned only for a container with
\* a published port and a proxy signal that rules 1 and 2 did not match, so
\* never for a container without published ports.
C9_UnknownOnlyWithPorts ==
    (Returned("classify_container") /\ ret.val = unknown_needs_review) =>
        /\ DOMAIN Published # {}
        /\ Signals.has_proxy_signals
        /\ ~Rule1
        /\ ~OtherProxySignal

\* C9 as amended: unknown_needs_review is returned exactly for a container
\* with a proxy signal that rules 1 and 2 did not match, whether or not it
\* has published ports.
C9_UnknownIffUnmatchedSignal ==
    call = "classify_container" =>
        /\ ~ret.raised
        /\ ret.val = unknown_needs_review <=>
              (Signals.has_proxy_signals /\ ~Rule1 /\ ~OtherProxySignal)

C9_Witness ==
    /\ Returned("classify_container")
    /\ ret.val = unknown_needs_review
    /\ DOMAIN Published = {}

----------------------------------------------------------------------------
\* Missing and null substructures (specification SpecMissing)

\* a missing or null member replaced by the empty value
FillEmpty(member, empty) == IF member.tag = "val" THEN member ELSE Val(empty)

Filled(container) ==
    LET ns == FillEmpty(container.NetworkSettings, EmptyNetworkSettings).val
    IN [container EXCEPT
           !.Config.Labels = FillEmpty(@, <<>>),
           !.Config.Env = FillEmpty(@, <<>>),
           !.Config.ExposedPorts = FillEmpty(@, <<>>),
           !.NetworkSettings = Val([Ports |-> FillEmpty(ns.Ports, <<>>),
                                    Networks |-> FillEmpty(ns.Networks, <<>>)])]

Outcome(name, a, container) ==
    CASE name = "is_reverse_proxy" -> is_reverse_proxy(container)
      [] name = "detect_proxy_signals" -> detect_proxy_signals(container)
      [] name = "get_published_ports" -> get_published_ports(container)
      [] name = "get_exposed_ports" -> get_exposed_ports(container)
      [] name = "classify_container" -> classify_container(container)
      [] name = "is_http_service" -> is_http_service(container)
      [] name = "generate_recommended_labels" -> generate_recommended_labels(container)
      [] name = "is_candidate_for_migration" -> is_candidate_for_migration(container, a)
      [] name = "analyze_risks" -> analyze_risks(container, a)

\* C10: no function raises on a record whose label map, environment list,
\* exposed-port map, port map, network map or NetworkSettings is missing or
\* null: it returns what it returns with the missing member empty; an
\* environment entry without '=' is skipped.
C10_MissingIsEmpty ==
    call # "none" =>
        /\ ~ret.raised
        /\ ret = Outcome(call, arg, Filled(rec))
        /\ (call = "detect_proxy_signals"
               /\ rec.Config.Env = Val(<< <<"V","I","R","T","U","A","L","_","P","O","R","T">> >>)) =>
              DOMAIN ret.val.nginx_proxy_env = {}

\* what holds instead: a call raises only on a null NetworkSettings, and
\* every call that returns treats the missing members as empty
C10_OnlyNullNetworkSettingsRaises ==
    call # "none" =>
        /\ ret.raised => rec.NetworkSettings.tag = "null"
        /\ ~ret.raised =>
              /\ ret = Outcome(call, arg, Filled(rec))
              /\ (call = "detect_proxy_signals"
                     /\ rec.Config.Env = Val(<< <<"V","I","R","T","U","A","L","_","P","O","R","T">> >>)) =>
                    DOMAIN ret.val.nginx_proxy_env = {}


====
